---- MODULE Spec2Model ----
(***************************************************************************)
(* Model of contour's cluster naming (internal/envoy/cluster.go) and of    *)
(* the Ingress processor of the DAG builder (IngressProcessor.Run).         *)
(*                                                                         *)
(* Strings are sequences of one-character strings, so that len, slicing,   *)
(* strings.Join and strings.Contains are computed as the code computes     *)
(* them.                                                                   *)
(***************************************************************************)
EXTENDS Integers, Sequences, FiniteSets, TLC

VARIABLES
    \* ---- Hashname callers (cluster.go) ----
    l,            \* the bound handed to Hashname
    segs,         \* the caller's []string, as the caller sees it
    args,         \* the segment values the most recent call was entered with
    ret,          \* the string the most recent call returned
    retpath,      \* which return statement produced ret
    prevret,      \* the string the call before the most recent one returned
    ncalls,       \* number of Hashname calls made
    \* ---- Clustername callers (cluster.go) ----
    svcA, svcB,   \* two dag.Service values
    nameA, nameB, \* Clustername of each, once computed
    named,        \* TRUE once Clustername has been called on both
    \* ---- IngressProcessor / Builder (dag) ----
    source,           \* builder.Source: the snapshot (ingresses by name)
    order,            \* the order in which range enumerates Source.ingresses in this run
    pc,               \* position of the build
    pbuilder,         \* p.builder is set (non-nil)
    i,                \* index into order of the ingress being processed
    j,                \* index of the rule being processed in Phase B
    virtualhosts,     \* builder.virtualhosts: host -> set of routes
    securevirtualhosts, \* builder.securevirtualhosts: host -> [Secret, MinTLSVersion, routes]
    secured,          \* the ingresses computeSecureVirtualhosts has gone through in this run
    prevgraph,        \* the graph the previous run produced
    runs              \* number of runs started

nameVars == <<l, segs, args, ret, retpath, prevret, ncalls>>
clusterVars == <<svcA, svcB, nameA, nameB, named>>
dagVars == <<source, order, pc, pbuilder, i, j, virtualhosts, securevirtualhosts,
             secured, prevgraph, runs>>
vars == <<nameVars, clusterVars, dagVars>>

-----------------------------------------------------------------------------
(* Bounds of the model *)

MaxL == 14          \* Hashname bounds explored: 0..MaxL
MaxSegs == 2        \* at most this many segments
MaxSegLen == 8      \* longest segment explored
MaxCalls == 2       \* Hashname calls per behaviour
MaxIngresses == 2   \* ingresses in the snapshot
MaxRuns == 2        \* builds of the same snapshot per behaviour

-----------------------------------------------------------------------------
(* Strings *)

Min(a, b) == IF a > b THEN b ELSE a

\* the characters the model's strings are made of; a character's code is its index
Chars == <<"0", "1", "2", "3", "4", "5", "6", "7", "8", "9",
           "a", "b", "c", "d", "e", "f",
           "/", "-", "s", "m", "h", "n", "x", "*", ".">>

CharCode(c) == CHOOSE k \in 1..Len(Chars) : Chars[k] = c

\* s x n: the string of n copies of character c
Rep(c, n) == [k \in 1..n |-> c]

\* s[:n]
Prefix(s, n) == SubSeq(s, 1, n)

RECURSIVE Join(_)
\* strings.Join(s, "/")
Join(s) ==
    IF Len(s) = 0 THEN <<>>
    ELSE IF Len(s) = 1 THEN s[1]
    ELSE s[1] \o <<"/">> \o Join(Tail(s))

RECURSIVE Itoa(_)
\* strconv.Itoa for n >= 0
Itoa(n) ==
    IF n < 10 THEN <<Chars[n + 1]>>
    ELSE Itoa(n \div 10) \o <<Chars[(n % 10) + 1]>>

\* strings.Contains(s, "*")
ContainsStar(s) == \E k \in 1..Len(s) : s[k] = "*"

\* strings.ContainsAny(path, "^+*[]%")
ContainsAnyRegex(s) == \E k \in 1..Len(s) : s[k] \in {"^", "+", "*", "[", "]", "%"}

-----------------------------------------------------------------------------
(* Digests.  sha256 and sha1 are modelled by a 16-bit polynomial digest of   *)
(* the bytes, rendered as lowercase hex of the real length.                  *)

shorthash == 6
Sha256HexLen == 64
Sha1PrefixHexLen == 10
ClusternameLimit == 60

RECURSIVE WeightedSum(_, _, _)
\* sum of the position-weighted character codes of s[lo..hi]
WeightedSum(s, lo, hi) ==
    IF lo > hi THEN 0
    ELSE IF lo = hi THEN CharCode(s[lo]) * ((lo * lo) + 1)
    ELSE LET mid == (lo + hi) \div 2
         IN WeightedSum(s, lo, mid) + WeightedSum(s, mid + 1, hi)

Digest(s, seed) == ((seed * 8191) + (WeightedSum(s, 1, Len(s)) * 31) + Len(s)) % 65521

HexDigit(d, k) == Chars[(((d \div (2 ^ (k % 12))) + (d * k) + k) % 16) + 1]

\* fmt.Sprintf("%x", sha256.Sum256([]byte(r)))
Sha256Hex(r) == LET d == Digest(r, 7) IN [k \in 1..Sha256HexLen |-> HexDigit(d, k)]

\* fmt.Sprintf("%x", hash[:5]) with hash := sha1.Sum([]byte(buf))
Sha1Hex5(buf) == LET d == Digest(buf, 11) IN [k \in 1..Sha1PrefixHexLen |-> HexDigit(d, k)]

-----------------------------------------------------------------------------
(* Hashname and truncate *)

\* truncate(l, s, suffix)
truncate(n, s, suffix) ==
    IF n >= Len(s) THEN s
    ELSE IF n <= Len(suffix) THEN Prefix(suffix, Min(n, Len(suffix)))
    ELSE Prefix(s, n - Len(suffix) - 1) \o <<"-">> \o suffix

\* a faulty fallback: the hash returned whole
HashFallbackWhole(n, hash) == hash

\* return hash[:min(len(hash), l)]
HashFallback(n, hash) == Prefix(hash, Min(Len(hash), n))

RECURSIVE HashnameLoop(_, _, _, _)
\* the for loop of Hashname, entered at index n (1-based); s is the slice as
\* written so far.  Yields the returned string, the slice as left behind and
\* the return statement taken.
HashnameLoop(n, s, k, hash) ==
    IF k < 1 THEN [ret |-> HashFallback(n, hash), s |-> s, path |-> "hash"]
    ELSE LET s2 == [s EXCEPT ![k] = truncate(n \div Len(s), s[k], Prefix(hash, shorthash))]
             r == Join(s2)
         IN IF n > Len(r) THEN [ret |-> r, s |-> s2, path |-> "truncated"]
            ELSE HashnameLoop(n, s2, k - 1, hash)

\* Hashname(l, s...)
Hashname(n, s) ==
    LET r == Join(s)
    IN IF n > Len(r) THEN [ret |-> r, s |-> s, path |-> "joined"]
       ELSE HashnameLoop(n, s, Len(s), Sha256Hex(r))

-----------------------------------------------------------------------------
(* Callers of Hashname *)

\* segment values explored
SegValues == {Rep("a", k) : k \in 0..MaxSegLen} \cup {<<"b">>}

SegLists == UNION {[1..k -> SegValues] : k \in 0..MaxSegs}

dagIdle ==
    /\ source = <<>> /\ order = <<>> /\ pc = "off" /\ pbuilder = FALSE
    /\ i = 0 /\ j = 0 /\ virtualhosts = <<>> /\ securevirtualhosts = <<>>
    /\ secured = {} /\ prevgraph = <<>> /\ runs = 0

clusterIdle ==
    /\ svcA = <<>> /\ svcB = <<>> /\ nameA = <<>> /\ nameB = <<>> /\ named = FALSE

nameIdle ==
    /\ l = 0 /\ segs = <<>> /\ args = <<>> /\ ret = <<>> /\ retpath = "none"
    /\ prevret = <<>> /\ ncalls = 0

InitName ==
    /\ l \in 0..MaxL
    /\ segs \in SegLists
    /\ args = <<>> /\ ret = <<>> /\ retpath = "none" /\ prevret = <<>> /\ ncalls = 0
    /\ clusterIdle /\ dagIdle

\* r := Hashname(l, segs...): the variadic parameter s is the caller's slice
\* itself, so the writes s[n] = ... of the loop land in the caller's segs.
HashnameSpread ==
    /\ ncalls < MaxCalls
    /\ \E h \in {Hashname(l, segs)} :
          /\ args' = segs
          /\ segs' = h.s
          /\ ret' = h.ret
          /\ retpath' = h.path
    /\ prevret' = ret
    /\ ncalls' = ncalls + 1
    /\ UNCHANGED <<l, clusterVars, dagVars>>

\* r := Hashname(l, segs[0], segs[1], ...): the compiler builds a fresh slice
\* for s, the caller's values are out of the callee's reach.
HashnameArgs ==
    /\ ncalls < MaxCalls
    /\ \E h \in {Hashname(l, segs)} :
          /\ args' = segs
          /\ ret' = h.ret
          /\ retpath' = h.path
    /\ prevret' = ret
    /\ ncalls' = ncalls + 1
    /\ UNCHANGED <<l, segs, clusterVars, dagVars>>

NextName == HashnameSpread \/ HashnameArgs

SpecName == InitName /\ [][NextName]_vars

-----------------------------------------------------------------------------
(* Clustername *)

\* (time.Duration(sec) * time.Second).String() for sec > 0
DurationString(sec) ==
    LET h == sec \div 3600
        m == (sec % 3600) \div 60
        s == sec % 60
    IN IF h > 0 THEN Itoa(h) \o <<"h">> \o Itoa(m) \o <<"m">> \o Itoa(s) \o <<"s">>
       ELSE IF m > 0 THEN Itoa(m) \o <<"m">> \o Itoa(s) \o <<"s">>
       ELSE Itoa(s) \o <<"s">>

\* the string buf that Clustername builds before hashing it.  The pointer
\* service.HealthCheck is <<>> when nil and <<hc>> when it points at hc.
ClusterBuf(service) ==
    service.LoadBalancerStrategy \o
    (IF service.HealthCheck = <<>> THEN <<>>
     ELSE LET hc == service.HealthCheck[1]
          IN (IF hc.TimeoutSeconds > 0 THEN DurationString(hc.TimeoutSeconds) ELSE <<>>) \o
             (IF hc.IntervalSeconds > 0 THEN DurationString(hc.IntervalSeconds) ELSE <<>>) \o
             (IF hc.UnhealthyThresholdCount > 0 THEN Itoa(hc.UnhealthyThresholdCount) ELSE <<>>) \o
             (IF hc.HealthyThresholdCount > 0 THEN Itoa(hc.HealthyThresholdCount) ELSE <<>>) \o
             hc.Path)

\* Clustername(service)
Clustername(service) ==
    Hashname(ClusternameLimit,
             <<service.Namespace, service.Name, Itoa(service.Port),
               Sha1Hex5(ClusterBuf(service))>>).ret

\* health-check policies explored
HealthChecks ==
    [TimeoutSeconds : {0, 5}, IntervalSeconds : {0, 5, 65},
     UnhealthyThresholdCount : {0, 1, 12}, HealthyThresholdCount : {0, 2},
     Path : {<<>>, <<"/", "h">>}]

Services ==
    [Namespace : {<<"n">>}, Name : {<<"a">>, Rep("a", 56)}, Port : {80},
     LoadBalancerStrategy : {<<>>, <<"x">>},
     HealthCheck : {<<>>} \cup {<<hc>> : hc \in HealthChecks}]

InitCluster ==
    /\ svcA \in Services
    /\ svcB \in {s \in Services : s.Namespace = svcA.Namespace /\ s.Name = svcA.Name
                                   /\ s.Port = svcA.Port}
    /\ nameA = <<>> /\ nameB = <<>> /\ named = FALSE
    /\ nameIdle /\ dagIdle

\* the snapshotter names the clusters of both services
ClusternameCall ==
    /\ ~named
    /\ nameA' = Clustername(svcA)
    /\ nameB' = Clustername(svcB)
    /\ named' = TRUE
    /\ UNCHANGED <<svcA, svcB, nameVars, dagVars>>

NextCluster == ClusternameCall

SpecCluster == InitCluster /\ [][NextCluster]_vars

-----------------------------------------------------------------------------
(* The snapshot the Ingress processor reads (builder.Source) *)

hostA == <<"a">>
hostB == <<"b">>
hostWild == <<"*", ".", "a">>
hostStar == <<"*">>
hostBlank == <<>>

pathRoot == <<"/">>
pathX == <<"/", "x">>
pathRegex == <<"/", "x", "*">>
pathBlank == <<>>

\* a secret reference as written in a TLS block; Namespace "" when unqualified
SecretRef(ns, name) == [Namespace |-> ns, Name |-> name]

\* a Secret of the snapshot; Valid says whether validSecret accepts it
Secret(ns, name, valid) == [Name |-> SecretRef(ns, name), Valid |-> valid]

IngressBackend(name) == [ServiceName |-> name, ServicePort |-> 80]
HTTPIngressPath(path, svc) == [Path |-> path, Backend |-> IngressBackend(svc)]
\* an IngressRule; HTTP is <<>> when the pointer is nil, <<paths>> otherwise
IngressRule(host, http) == [Host |-> host, HTTP |-> http]
IngressTLS(secret, hosts) == [SecretName |-> secret, Hosts |-> hosts]

\* an Ingress with the default annotations
Ingress(tls, rules, backend) ==
    [Namespace |-> "n", TLS |-> tls, Rules |-> rules, Backend |-> backend,
     TLSRequired |-> FALSE, HTTPAllowed |-> TRUE, MinTLSVersion |-> "1.1",
     WebsocketRoutes |-> {}, TimeoutPolicy |-> "none", RetryPolicy |-> "none"]

\* the ingresses explored
IngressShapes ==
    { \* default backend only
      Ingress(<<>>, <<>>, <<IngressBackend("svc1")>>),
      \* default backend only, its service is not in the snapshot
      Ingress(<<>>, <<>>, <<IngressBackend("gone")>>),
      \* default backend only, plaintext switched off by annotation
      [Ingress(<<>>, <<>>, <<IngressBackend("svc1")>>) EXCEPT !.HTTPAllowed = FALSE],
      \* TLS for host a with secret s1, one rule for host a
      Ingress(<<IngressTLS(SecretRef("", "s1"), <<hostA>>)>>,
              <<IngressRule(hostA, <<<<HTTPIngressPath(pathRoot, "svc1")>>>>)>>, <<>>),
      \* TLS for host a with secret s2 and a stricter TLS version, TLS required
      [Ingress(<<IngressTLS(SecretRef("", "s2"), <<hostA, hostB>>)>>,
               <<IngressRule(hostA, <<<<HTTPIngressPath(pathX, "svc2"),
                                        HTTPIngressPath(pathBlank, "gone")>>>>)>>, <<>>)
         EXCEPT !.TLSRequired = TRUE, !.MinTLSVersion = "1.3", !.WebsocketRoutes = {pathX}],
      \* an invalid secret for host a, a valid one for host b
      Ingress(<<IngressTLS(SecretRef("", "bad"), <<hostA>>),
                IngressTLS(SecretRef("", "s1"), <<hostB>>)>>,
              <<IngressRule(hostB, <<<<HTTPIngressPath(pathBlank, "svc1")>>>>),
                IngressRule(hostA, <<<<HTTPIngressPath(pathRegex, "svc1")>>>>)>>, <<>>),
      \* wildcard and default hosts in a TLS block and in rules
      Ingress(<<IngressTLS(SecretRef("", "s1"), <<hostWild, hostStar>>)>>,
              <<IngressRule(hostWild, <<<<HTTPIngressPath(pathRoot, "svc1")>>>>),
                IngressRule(hostBlank, <<<<HTTPIngressPath(pathRoot, "svc1")>>>>)>>, <<>>),
      \* a secret of another namespace, not delegated; a missing secret
      Ingress(<<IngressTLS(SecretRef("m", "s3"), <<hostB>>),
                IngressTLS(SecretRef("", "none"), <<hostA>>)>>,
              <<IngressRule(hostB, <<<<HTTPIngressPath(pathRoot, "svc1")>>>>),
                IngressRule(hostA, <<>>)>>, <<>>),
      \* a delegated secret of another namespace; rules and a default backend
      Ingress(<<IngressTLS(SecretRef("m", "s4"), <<hostB>>)>>,
              <<IngressRule(hostB, <<<<HTTPIngressPath(pathX, "svc2")>>>>)>>,
              <<IngressBackend("svc2")>>),
      \* two TLS blocks for host a, with different secrets
      Ingress(<<IngressTLS(SecretRef("", "s1"), <<hostA>>),
                IngressTLS(SecretRef("", "s2"), <<hostA>>)>>, <<>>, <<>>),
      \* no TLS, a rule for host a
      Ingress(<<>>, <<IngressRule(hostA, <<<<HTTPIngressPath(pathBlank, "svc2")>>>>)>>, <<>>)
    }

IngressNames == 1..MaxIngresses

\* the snapshots explored: every assignment of a shape to each ingress name.
\* Secrets: s1, s2 (namespace n) and s3, s4 (namespace m) are well-formed,
\* bad fails validation, any other is missing.  s4 is delegated to namespace
\* n, s3 is not.
Sources ==
    [ingresses : [IngressNames -> IngressShapes],
     secrets : {{Secret("n", "s1", TRUE), Secret("n", "s2", TRUE),
                 Secret("m", "s3", TRUE), Secret("m", "s4", TRUE),
                 Secret("n", "bad", FALSE)}},
     delegations : {{<<SecretRef("n", "s1"), "n">>, <<SecretRef("n", "s2"), "n">>,
                     <<SecretRef("n", "bad"), "n">>, <<SecretRef("n", "none"), "n">>,
                     <<SecretRef("m", "s4"), "n">>}},
     services : {{[Namespace |-> "n", Name |-> "svc1", Port |-> 80, Protocol |-> ""],
                  [Namespace |-> "n", Name |-> "svc2", Port |-> 80, Protocol |-> "h2"]}}]

\* k8s.NamespacedNameFrom(tls.SecretName, k8s.DefaultNamespace(ns))
NamespacedNameFrom(ref, ns) ==
    IF ref.Namespace = "" THEN SecretRef(ns, ref.Name) ELSE ref

\* Source.LookupSecret(name, validSecret): <<secret>>, or <<>> on error
LookupSecret(src, name) ==
    LET found == {s \in src.secrets : s.Name = name}
    IN IF found = {} THEN <<>>
       ELSE LET s == CHOOSE s \in found : TRUE
            IN IF s.Valid THEN <<s>> ELSE <<>>

\* Source.DelegationPermitted(secretName, namespace)
DelegationPermitted(src, name, ns) == <<name, ns>> \in src.delegations

\* builder.lookupService(m, port): <<service>>, or <<>> on error
lookupService(src, ns, name, port) ==
    LET found == {s \in src.services : s.Namespace = ns /\ s.Name = name /\ s.Port = port}
    IN IF found = {} THEN <<>> ELSE <<CHOOSE s \in found : TRUE>>

-----------------------------------------------------------------------------
(* Builder: the graph under construction *)

\* builder.lookupVirtualHost(host): get or create; yields the map
lookupVirtualHost(vh, host) ==
    IF host \in DOMAIN vh THEN vh ELSE vh @@ (host :> {})

\* builder.lookupSecureVirtualHost(host): get or create; yields the map
lookupSecureVirtualHost(svh, host) ==
    IF host \in DOMAIN svh THEN svh
    ELSE svh @@ (host :> [Secret |-> <<>>, MinTLSVersion |-> "", routes |-> {}])

\* v.addRoute(r) on the plaintext virtual host of host
addRoute(vh, host, r) == [vh EXCEPT ![host] = @ \cup {r}]

\* svh.addRoute(r) on the secure virtual host of host
addSecureRoute(svh, host, r) == [svh EXCEPT ![host].routes = @ \cup {r}]

-----------------------------------------------------------------------------
(* IngressProcessor *)

\* a TLS block handled with the delegation check left out
secureBlockNoDelegation(src, svh, ing, tls) ==
    LET secretName == NamespacedNameFrom(tls.SecretName, ing.Namespace)
        sec == LookupSecret(src, secretName)
        populate[k \in 0..Len(tls.Hosts)] ==
            IF k = 0 THEN svh
            ELSE [lookupSecureVirtualHost(populate[k - 1], tls.Hosts[k])
                    EXCEPT ![tls.Hosts[k]].Secret = sec[1],
                           ![tls.Hosts[k]].MinTLSVersion = ing.MinTLSVersion]
    IN IF sec = <<>> THEN svh
       ELSE populate[Len(tls.Hosts)]

\* the body of computeSecureVirtualhosts' inner loop, for one TLS block
secureBlock(src, svh, ing, tls) ==
    LET secretName == NamespacedNameFrom(tls.SecretName, ing.Namespace)
        sec == LookupSecret(src, secretName)
        populate[k \in 0..Len(tls.Hosts)] ==
            IF k = 0 THEN svh
            ELSE [lookupSecureVirtualHost(populate[k - 1], tls.Hosts[k])
                    EXCEPT ![tls.Hosts[k]].Secret = sec[1],
                           ![tls.Hosts[k]].MinTLSVersion = ing.MinTLSVersion]
    IN IF sec = <<>> THEN svh                                          \* continue
       ELSE IF ~DelegationPermitted(src, secretName, ing.Namespace) THEN svh  \* continue
       ELSE populate[Len(tls.Hosts)]

\* computeSecureVirtualhosts' outer loop body: every TLS block of one ingress
secureIngress(src, svh, ing) ==
    LET blocks[k \in 0..Len(ing.TLS)] ==
            IF k = 0 THEN svh ELSE secureBlock(src, blocks[k - 1], ing, ing.TLS[k])
    IN blocks[Len(ing.TLS)]

\* defaultBackendRule(be)
defaultBackendRule(be) ==
    IngressRule(<<>>, <<<<[Path |-> <<>>,
                          Backend |-> [ServiceName |-> be.ServiceName,
                                       ServicePort |-> be.ServicePort]]>>>>)

\* rulesFromSpec(spec)
rulesFromSpec(ing) ==
    IF ing.Backend # <<>> THEN Append(ing.Rules, defaultBackendRule(ing.Backend[1]))
    ELSE ing.Rules

\* a stringOrDefault that forgets the default
stringOrDefaultNone(s, def) == s

\* stringOrDefault(s, def)
stringOrDefault(s, def) == IF s = <<>> THEN def ELSE s

\* httppaths(rule)
httppaths(rule) == IF rule.HTTP = <<>> THEN <<>> ELSE rule.HTTP[1]

\* route(ingress, path, service)
route(ing, path, service) ==
    [HTTPSUpgrade |-> ing.TLSRequired,
     Websocket |-> path \in ing.WebsocketRoutes,
     TimeoutPolicy |-> ing.TimeoutPolicy,
     RetryPolicy |-> ing.RetryPolicy,
     Clusters |-> <<[Upstream |-> service, Protocol |-> service.Protocol]>>,
     PathMatchCondition |->
        IF ContainsAnyRegex(path) THEN [kind |-> "Regex", value |-> path]
        ELSE [kind |-> "Prefix", value |-> path]]

\* the secure attachment with the default host let through
attachSecureAnyHost(svh, host, r) ==
    IF host \in DOMAIN svh THEN addSecureRoute(svh, host, r) ELSE svh

\* the secure attachment done through the get-or-create accessor
attachSecureCreating(svh, host, r) ==
    IF host # <<"*">> THEN addSecureRoute(lookupSecureVirtualHost(svh, host), host, r)
    ELSE svh

\* svh, ok := p.builder.securevirtualhosts[host]; if ok && host != "*" { svh.addRoute(r) }
attachSecure(svh, host, r) ==
    IF host \in DOMAIN svh /\ host # <<"*">> THEN addSecureRoute(svh, host, r) ELSE svh

\* the body of computeIngressRule's loop, for one path of the rule
ingressPath(src, g, ing, host, httppath) ==
    LET path == stringOrDefault(httppath.Path, <<"/">>)
        be == httppath.Backend
        s == lookupService(src, ing.Namespace, be.ServiceName, be.ServicePort)
    IN IF s = <<>> THEN g                                              \* continue
       ELSE LET r == route(ing, path, s[1])
            IN [vh |-> IF ing.TLSRequired \/ ing.HTTPAllowed
                       THEN addRoute(lookupVirtualHost(g.vh, host), host, r)
                       ELSE g.vh,
                svh |-> attachSecure(g.svh, host, r)]

\* computeIngressRule(ing, rule), on the graph g = [vh, svh]
computeIngressRule(src, g, ing, rule) ==
    IF ContainsStar(rule.Host) THEN g     \* reject hosts with wildcard characters
    ELSE LET host == IF rule.Host = <<>> THEN <<"*">> ELSE rule.Host
             paths == httppaths(rule)
             each[k \in 0..Len(paths)] ==
                 IF k = 0 THEN g ELSE ingressPath(src, each[k - 1], ing, host, paths[k])
         IN each[Len(paths)]

Graph == [vh |-> virtualhosts, svh |-> securevirtualhosts]

\* the orders range can enumerate Source.ingresses in
Orders == {o \in [IngressNames -> IngressNames] : \A a, b \in IngressNames : o[a] = o[b] => a = b}

Init ==
    /\ source \in Sources
    /\ order = <<>> /\ pc = "idle" /\ pbuilder = FALSE /\ i = 0 /\ j = 0
    /\ virtualhosts = <<>> /\ securevirtualhosts = <<>>
    /\ secured = {} /\ prevgraph = <<>> /\ runs = 0
    /\ nameIdle /\ clusterIdle

\* Builder: a reconciliation pass starts from an empty graph and hands the
\* builder to the processor
Build ==
    /\ pc \in {"idle", "done"}
    /\ runs < MaxRuns
    /\ prevgraph' = IF pc = "done" THEN Graph ELSE prevgraph
    /\ virtualhosts' = <<>>
    /\ securevirtualhosts' = <<>>
    /\ secured' = {}
    /\ order' \in Orders
    /\ runs' = runs + 1
    /\ pc' = "run"
    /\ i' = 0 /\ j' = 0
    /\ UNCHANGED <<source, pbuilder, nameVars, clusterVars>>

\* Run: p.builder = builder, computeSecureVirtualhosts is entered
Run ==
    /\ pc = "run"
    /\ pbuilder' = TRUE
    /\ pc' = "phaseA"
    /\ i' = 1
    /\ UNCHANGED <<source, order, j, virtualhosts, securevirtualhosts, secured,
                   prevgraph, runs, nameVars, clusterVars>>

\* computeSecureVirtualhosts: one iteration of the loop over the ingresses
computeSecureVirtualhosts ==
    /\ pc = "phaseA"
    /\ i <= MaxIngresses
    /\ securevirtualhosts' =
          secureIngress(source, securevirtualhosts, source.ingresses[order[i]])
    /\ secured' = secured \cup {order[i]}
    /\ i' = i + 1
    /\ UNCHANGED <<source, order, pc, pbuilder, j, virtualhosts, prevgraph, runs,
                   nameVars, clusterVars>>

\* computeSecureVirtualhosts returns, computeIngresses is entered
computeIngresses ==
    /\ pc = "phaseA"
    /\ i > MaxIngresses
    /\ pc' = "phaseB"
    /\ i' = 1
    /\ j' = 1
    /\ UNCHANGED <<source, order, pbuilder, virtualhosts, securevirtualhosts, secured,
                   prevgraph, runs, nameVars, clusterVars>>

\* computeIngresses: p.computeIngressRule(ing, rule) for the next rule of the
\* ingress at hand
ingressRuleStep ==
    /\ pc = "phaseB"
    /\ i <= MaxIngresses
    /\ LET ing == source.ingresses[order[i]]
           rules == rulesFromSpec(ing)
       IN /\ j <= Len(rules)
          /\ LET g == computeIngressRule(source, Graph, ing, rules[j])
             IN /\ virtualhosts' = g.vh
                /\ securevirtualhosts' = g.svh
    /\ j' = j + 1
    /\ UNCHANGED <<source, order, pc, pbuilder, i, secured, prevgraph, runs,
                   nameVars, clusterVars>>

\* computeIngresses: the rules of the ingress at hand are done, on to the next
nextIngress ==
    /\ pc = "phaseB"
    /\ i <= MaxIngresses
    /\ j > Len(rulesFromSpec(source.ingresses[order[i]]))
    /\ i' = i + 1
    /\ j' = 1
    /\ UNCHANGED <<source, order, pc, pbuilder, virtualhosts, securevirtualhosts,
                   secured, prevgraph, runs, nameVars, clusterVars>>

\* computeIngresses returns, then Run: the deferred p.builder = nil
RunReturn ==
    /\ pc = "phaseB"
    /\ i > MaxIngresses
    /\ pbuilder' = FALSE
    /\ pc' = "done"
    /\ UNCHANGED <<source, order, i, j, virtualhosts, securevirtualhosts, secured,
                   prevgraph, runs, nameVars, clusterVars>>

Next ==
    \/ Build
    \/ Run
    \/ computeSecureVirtualhosts
    \/ computeIngresses
    \/ ingressRuleStep
    \/ nextIngress
    \/ RunReturn

Spec == Init /\ [][Next]_vars

-----------------------------------------------------------------------------
(* Claims about Hashname, checked under SpecName *)

\* C2: whenever the joined segments are no longer than the bound l (exactly
\* l included), Hashname returns the joined string unchanged.
C2_JoinedWithinBoundUnchanged ==
    (ncalls > 0 /\ Len(Join(args)) <= l) => ret = Join(args)

\* C3: for every bound l >= shorthash and every segment list, the returned
\* string is at most l long, whichever return statement produced it.
C3_LengthBounded ==
    (ncalls > 0 /\ l >= shorthash) => Len(ret) <= l

\* a call that cut the last segment to "prefix-suffix" form and returned the
\* re-joined, partially truncated string
C3_Witness ==
    /\ ncalls > 0 /\ l >= shorthash /\ retpath = "truncated"
    /\ Len(args) > 0
    /\ (l \div Len(args)) > shorthash
    /\ Len(args[Len(args)]) > (l \div Len(args))
    /\ Len(ret) > 0

\* C9: a call leaves the caller's segment values as they were, and so the
\* second call with the same bound and list returns what the first returned.
C9_CallerSegmentsUntouched ==
    [][(ncalls' = ncalls + 1) => (segs' = segs /\ (ncalls = 1 => ret' = ret))]_vars

-----------------------------------------------------------------------------
(* Claims about Clustername, checked under SpecCluster *)

\* C7: two Services with the same namespace, name, port and load-balancer
\* strategy whose health-check policies differ in any field have different
\* identity strings and different names.  (With the hash taken as injective,
\* equal names come from equal identity strings only, so that is the case
\* the formula forbids.)
C7_DistinctPoliciesDistinctIdentity ==
    (/\ named
     /\ svcA.Namespace = svcB.Namespace /\ svcA.Name = svcB.Name
     /\ svcA.Port = svcB.Port
     /\ svcA.LoadBalancerStrategy = svcB.LoadBalancerStrategy
     /\ svcA.HealthCheck # <<>> /\ svcB.HealthCheck # <<>>
     /\ svcA.HealthCheck # svcB.HealthCheck)
    => ~(ClusterBuf(svcA) = ClusterBuf(svcB) /\ nameA = nameB)

-----------------------------------------------------------------------------
(* Claims about IngressProcessor.Run, checked under Spec *)

\* the TLS blocks of the snapshot: <<ingress name, index of the block>>
TLSBlocks ==
    UNION {{<<n, m>> : m \in 1..Len(source.ingresses[n].TLS)} : n \in IngressNames}

BlockOf(b) == source.ingresses[b[1]].TLS[b[2]]

BlockSecretName(b) ==
    NamespacedNameFrom(BlockOf(b).SecretName, source.ingresses[b[1]].Namespace)

\* the block's secret passes lookup and validation and its delegation is permitted
BlockResolved(b) ==
    /\ \E s \in source.secrets : s.Name = BlockSecretName(b) /\ s.Valid
    /\ <<BlockSecretName(b), source.ingresses[b[1]].Namespace>> \in source.delegations

BlockLists(b, h) == \E k \in 1..Len(BlockOf(b).Hosts) : BlockOf(b).Hosts[k] = h

\* Phase A resolved a secret for a TLS block listing h
ResolvedFor(h) == \E b \in TLSBlocks : BlockResolved(b) /\ BlockLists(b, h)

\* the place of ingress n in this run's enumeration
Pos(n) == CHOOSE k \in IngressNames : order[k] = n

\* block b is processed after block c in this run
After(b, c) == Pos(b[1]) > Pos(c[1]) \/ (b[1] = c[1] /\ b[2] > c[2])

\* the path entries of the snapshot: <<ingress name, index of the rule among
\* the effective rules, index of the path>>
PathEntries ==
    UNION {UNION {{<<n, m, k>> : k \in 1..Len(httppaths(rulesFromSpec(source.ingresses[n])[m]))} :
                  m \in 1..Len(rulesFromSpec(source.ingresses[n]))} :
           n \in IngressNames}

EntryRule(e) == rulesFromSpec(source.ingresses[e[1]])[e[2]]

EntryPath(e) == httppaths(EntryRule(e))[e[3]]

\* the services of the snapshot the entry's backend names
EntryServices(e) ==
    {s \in source.services :
        /\ s.Namespace = source.ingresses[e[1]].Namespace
        /\ s.Name = EntryPath(e).Backend.ServiceName
        /\ s.Port = EntryPath(e).Backend.ServicePort}

\* the routes the snapshot's rules give rise to: <<host after normalisation, route>>
BuiltRoutes ==
    {<<(IF EntryRule(e).Host = <<>> THEN <<"*">> ELSE EntryRule(e).Host),
       route(source.ingresses[e[1]],
             (IF EntryPath(e).Path = <<>> THEN <<"/">> ELSE EntryPath(e).Path),
             CHOOSE s \in EntryServices(e) : TRUE)>> :
     e \in {x \in PathEntries : ~ContainsStar(EntryRule(x).Host) /\ EntryServices(x) # {}}}

SecureAttached(h, r) ==
    h \in DOMAIN securevirtualhosts /\ r \in securevirtualhosts[h].routes

\* C1: after Run, a Route built from a rule for host H is attached to the
\* secure virtual host of H iff H is not the default host "*" and Phase A
\* resolved a validated, delegation-permitted secret for a TLS block listing
\* H, whichever ingress declared that block.
C1_SecureAttachmentIff ==
    pc = "done" =>
        \A hr \in BuiltRoutes :
            SecureAttached(hr[1], hr[2]) <=> (hr[1] # <<"*">> /\ ResolvedFor(hr[1]))

\* a finished run in which a route of an ingress without any TLS block sits
\* on the secure virtual host another ingress' TLS block set up
C1_Witness ==
    /\ pc = "done"
    /\ \E n \in IngressNames :
          /\ source.ingresses[n].TLS = <<>>
          /\ Len(source.ingresses[n].Rules) > 0
          /\ \E hr \in BuiltRoutes :
                /\ hr[1] = source.ingresses[n].Rules[1].Host
                /\ hr[2].HTTPSUpgrade = source.ingresses[n].TLSRequired
                /\ hr[2].Clusters[1].Upstream.Name =
                      httppaths(source.ingresses[n].Rules[1])[1].Backend.ServiceName
                /\ SecureAttached(hr[1], hr[2])

\* C4: no hostname containing a wildcard character is ever a key of the
\* plaintext or of the secure virtual-host map, the default host "*" of the
\* plaintext map excepted.
C4_NoWildcardKeys ==
    /\ \A h \in DOMAIN virtualhosts : h = <<"*">> \/ ~ContainsStar(h)
    /\ \A h \in DOMAIN securevirtualhosts : ~ContainsStar(h)

\* ingress n declares no TLS block and no rules, only a default backend
DefaultBackendOnly(n) ==
    /\ source.ingresses[n].TLS = <<>>
    /\ source.ingresses[n].Rules = <<>>
    /\ source.ingresses[n].Backend # <<>>

PrefixRootAttached ==
    /\ <<"*">> \in DOMAIN virtualhosts
    /\ \E r \in virtualhosts[<<"*">>] :
          r.PathMatchCondition = [kind |-> "Prefix", value |-> <<"/">>]

\* C5, as claimed: for every ingress with no TLS block and no rules, only a
\* default backend, after Run a Route with prefix match "/" is attached to the
\* plaintext virtual host "*".
C5_DefaultBackendRouteAlways ==
    pc = "done" => \A n \in IngressNames : DefaultBackendOnly(n) => PrefixRootAttached

\* the default backend's service is in the snapshot and the ingress requires
\* TLS or allows plaintext HTTP
BackendServed(n) ==
    /\ \E s \in source.services :
          /\ s.Namespace = source.ingresses[n].Namespace
          /\ s.Name = source.ingresses[n].Backend[1].ServiceName
          /\ s.Port = source.ingresses[n].Backend[1].ServicePort
    /\ (source.ingresses[n].TLSRequired \/ source.ingresses[n].HTTPAllowed)

\* C5, amended: for every such ingress whose default backend resolves to a
\* service of the snapshot and which requires TLS or allows plaintext HTTP,
\* after Run a Route to that service with prefix match "/" is attached to the
\* plaintext virtual host "*".
C5_DefaultBackendRouteWhenServed ==
    pc = "done" =>
        \A n \in IngressNames :
            (DefaultBackendOnly(n) /\ BackendServed(n)) =>
                /\ <<"*">> \in DOMAIN virtualhosts
                /\ \E r \in virtualhosts[<<"*">>] :
                      /\ r.PathMatchCondition = [kind |-> "Prefix", value |-> <<"/">>]
                      /\ r.Clusters[1].Upstream.Name =
                            source.ingresses[n].Backend[1].ServiceName
                      /\ r.HTTPSUpgrade = source.ingresses[n].TLSRequired

C5_Witness ==
    /\ pc = "done"
    /\ \E n \in IngressNames : DefaultBackendOnly(n) /\ BackendServed(n)
    /\ PrefixRootAttached

PhaseADone == pc \in {"phaseB", "done"}

\* the hosts of a block that did not resolve get no secure virtual host from it
FailedBlocksGiveNothing ==
    \A b \in TLSBlocks :
        ~BlockResolved(b) =>
            \A h \in DOMAIN securevirtualhosts :
                BlockLists(b, h) => \E c \in TLSBlocks : BlockResolved(c) /\ BlockLists(c, h)

\* C6, as claimed: after Phase A the hosts of a failed TLS block have no
\* secure virtual host from it, and every resolved TLS block, of the same or
\* of another ingress, has a secure virtual host carrying its resolved secret
\* for each of its hosts.
C6_EveryResolvedBlockKeepsItsSecret ==
    PhaseADone =>
        /\ FailedBlocksGiveNothing
        /\ \A b \in TLSBlocks :
              BlockResolved(b) =>
                  \A k \in 1..Len(BlockOf(b).Hosts) :
                      /\ BlockOf(b).Hosts[k] \in DOMAIN securevirtualhosts
                      /\ securevirtualhosts[BlockOf(b).Hosts[k]].Secret.Name = BlockSecretName(b)

\* C6, amended: after Phase A the hosts of a failed TLS block have no secure
\* virtual host from it, and every resolved TLS block has a secure virtual
\* host for each of its hosts, carrying the secret of the resolved block
\* listing that host that was processed last (the block's own secret when no
\* resolved block processed later lists the host).
C6_ResolvedBlocksSurviveFailures ==
    PhaseADone =>
        /\ FailedBlocksGiveNothing
        /\ \A b \in TLSBlocks :
              BlockResolved(b) =>
                  \A k \in 1..Len(BlockOf(b).Hosts) :
                      LET h == BlockOf(b).Hosts[k]
                      IN /\ h \in DOMAIN securevirtualhosts
                         /\ \E c \in TLSBlocks :
                               /\ BlockResolved(c) /\ BlockLists(c, h)
                               /\ \A d \in TLSBlocks :
                                     (BlockResolved(d) /\ BlockLists(d, h)) => ~After(d, c)
                               /\ securevirtualhosts[h].Secret.Name = BlockSecretName(c)
                               /\ securevirtualhosts[h].MinTLSVersion =
                                     source.ingresses[c[1]].MinTLSVersion

\* Phase A is over, an ingress has a failed block before a resolved one, the
\* resolved block's host has its secure virtual host, the failed one's has none
C6_Witness ==
    /\ PhaseADone
    /\ \E b, c \in TLSBlocks :
          /\ b[1] = c[1] /\ b[2] < c[2]
          /\ ~BlockResolved(b) /\ BlockResolved(c)
          /\ \E h \in DOMAIN securevirtualhosts :
                BlockLists(c, h) /\ securevirtualhosts[h].Secret.Name = BlockSecretName(c)
          /\ \E h \in {BlockOf(b).Hosts[k] : k \in 1..Len(BlockOf(b).Hosts)} :
                h \notin DOMAIN securevirtualhosts

\* C8: a run over the same snapshot yields a graph equal in content to the
\* one the previous run yielded, whatever order the ingresses were enumerated
\* in on each run.
C8_RerunSameGraph ==
    (pc = "done" /\ runs >= 2) => Graph = prevgraph

\* keys of the secure virtual-host map with their TLS parameters
SecureKeys ==
    [h \in DOMAIN securevirtualhosts |->
        [Secret |-> securevirtualhosts[h].Secret,
         MinTLSVersion |-> securevirtualhosts[h].MinTLSVersion]]

\* C10: Phase A has gone through every ingress before Phase B handles its
\* first rule, and no step of Phase B adds, removes or re-populates an entry
\* of the secure virtual-host map; Phase B only attaches routes.
C10_PhaseBKeepsSecureKeys ==
    /\ [](pc = "phaseB" => secured = IngressNames)
    /\ [][pc = "phaseB" =>
            /\ SecureKeys' = SecureKeys
            /\ \A h \in DOMAIN securevirtualhosts :
                  securevirtualhosts[h].routes \subseteq securevirtualhosts'[h].routes]_vars

\* Phase B is under way and has attached a route to a secure virtual host
C10_Witness ==
    /\ pc = "phaseB"
    /\ j > 1
    /\ \E h \in DOMAIN securevirtualhosts : securevirtualhosts[h].routes # {}

====
